---- MODULE Spec2Model ----
(***************************************************************************)
(* Model of callme::client (lib/callme/client.cc): the connection state    *)
(* machine, the io thread that runs the connect handler, the read handler  *)
(* and the tasks posted to the strand, the table ongoing_calls_ of         *)
(* promises, the call-id counter and wait_conn.                            *)
(*                                                                         *)
(* One io thread runs io_.run(), so handlers and strand tasks never        *)
(* overlap: each is one atomic action.  Caller threads run the public      *)
(* operations; an operation that is not atomic in the code is split at     *)
(* the places where another thread can interleave.                         *)
(***************************************************************************)
EXTENDS Integers, Sequences, FiniteSets, TLC

\* ------------------------------------------------------------- bounds
NumThreads == 2     \* caller threads
MaxCalls   == 2     \* calls submitted in a run (each takes one id)
MaxNotifs  == 1     \* notifications submitted in a run
MaxFrames  == 2     \* response frames the server sends in a run
MaxBatch   == 2     \* frames that one read can complete
MaxWaits   == 2     \* wait_conn invocations in a run
MaxWaitAlls == 1    \* wait_all_responses invocations in a run

Threads == 1..NumThreads
Calls   == 1..MaxCalls
\* call_idx_ starts at 0 and is incremented once per call, so the ids a
\* call can get, and the ids worth sending by the server, are 1..MaxCalls.
Ids     == 1..MaxCalls

\* A response frame as response.h exposes it: get_id() and whether
\* get_error() is set.  The result or error payload is the frame itself.
Frames  == [id : Ids, err : BOOLEAN]
\* The frames one read can complete when the run has room for more frames.
Batches(room) ==
    UNION {[1..n -> Frames] : n \in 1..(IF room < MaxBatch THEN room ELSE MaxBatch)}

\* ------------------------------------------------------------- state
VARIABLES
    call_idx_,      \* std::atomic<int> call_idx_
    ongoing_calls_, \* id -> promise stored under it, or NoEntry
    strand_,        \* tasks posted to strand_, not run yet (FIFO)
    state_,         \* client::connection_state
    is_connected_,  \* std::atomic_bool is_connected_
    mutex,          \* owner of mut_connection_finished_, 0 when free
    connect,        \* the async_connect: "pending", "ok" or "failed"
    read_armed,     \* an async_read_some is outstanding
    read_error,     \* error code of the read that failed ("none": no read failed)
    io,             \* the io thread: "running", "exited", "stopped", "terminated"
    pc,             \* where each caller thread is
    cur,            \* the call a caller thread is submitting (0: none)
    idx,            \* call -> id that get_next_call_idx returned (0: none yet)
    loc,            \* call -> where its promise lives
    outcome,        \* call -> what its future holds
    written,        \* buffers handed to writer_->write, in order
    received,       \* id -> frames with that id received so far
    nnotifs,        \* notifications submitted so far
    nwaits,         \* wait_conn invocations so far
    prior,          \* submission -> the submissions whose post() had
                    \* returned when its own post() was called
    it,             \* wait_all_responses: the id of the entry a thread's
                    \* iterator refers to (0: not iterating)
    seen,           \* wait_all_responses: the ids a thread has visited
    taken,          \* the ids of the entries whose promise had
                    \* get_future() called by wait_all_responses
    wa_reg,         \* the calls registered when a thread called
                    \* wait_all_responses
    wa_result,      \* how a thread's last wait_all_responses ended
    nwaitalls       \* wait_all_responses invocations so far

vars == <<call_idx_, ongoing_calls_, strand_, state_, is_connected_, mutex,
          connect, read_armed, read_error, io, pc, cur, idx, loc, outcome,
          written, received, nnotifs, nwaits, prior,
          it, seen, taken, wa_reg, wa_result, nwaitalls>>

\* The state of the threads inside wait_all_responses, and all that
\* wait_all_responses touches besides the table.
wa_thread == <<it, seen, wa_reg, wa_result, nwaitalls>>
wa_vars   == <<wa_thread, taken>>

NoEntry == [owner |-> -1, ready |-> FALSE]
\* operator[] on a missing key default-constructs a promise nobody waits on.
DefaultPromise == [owner |-> 0, ready |-> FALSE]
Unset  == [kind |-> "unset"]
\* The promise was destroyed before it was satisfied: the future holds
\* future_error(broken_promise).
Broken == [kind |-> "broken"]

\* A submission is a call (its number) or a notification (minus its
\* number, in the order of the calls of post).
Notifs == {0 - k : k \in 1..MaxNotifs}
Subs   == Calls \cup Notifs

\* The submissions whose post() has returned.
Posted ==
    {c \in Calls : loc[c] \in {"task", "table", "destroyed"}}
        \cup {0 - k : k \in 1..nnotifs}

Registered(c) == idx[c] # 0 /\ ongoing_calls_[idx[c]].owner = c

InWritten(c) == \E k \in 1..Len(written) : written[k] = c

\* The place of a written buffer in the writer's log.
WrittenAt(c) == CHOOSE k \in 1..Len(written) : written[k] = c

\* Frames received so far.
RECURSIVE SumTo(_)
SumTo(n) == IF n = 0 THEN 0 ELSE received[n] + SumTo(n - 1)
NFrames == SumTo(MaxCalls)

\* The frames the run can still receive.
Room == MaxFrames - NFrames

\* Frames with id i among the first k frames of a batch.
InBatch(batch, k, i) == Cardinality({j \in 1..k : batch[j].id = i})

Init ==
    /\ call_idx_ = 0
    /\ ongoing_calls_ = [i \in Ids |-> NoEntry]
    /\ strand_ = <<>>
    /\ state_ = "initial"
    /\ is_connected_ = FALSE
    /\ mutex = 0
    /\ connect = "pending"
    /\ read_armed = FALSE
    /\ read_error = "none"
    /\ io = "running"
    /\ pc = [t \in Threads |-> "idle"]
    /\ cur = [t \in Threads |-> 0]
    /\ idx = [c \in Calls |-> 0]
    /\ loc = [c \in Calls |-> "none"]
    /\ outcome = [c \in Calls |-> Unset]
    /\ written = <<>>
    /\ received = [i \in Ids |-> 0]
    /\ nnotifs = 0
    /\ nwaits = 0
    /\ prior = [s \in Subs |-> {}]
    /\ it = [t \in Threads |-> 0]
    /\ seen = [t \in Threads |-> {}]
    /\ taken = {}
    /\ wa_reg = [t \in Threads |-> {}]
    /\ wa_result = [t \in Threads |-> "none"]
    /\ nwaitalls = 0

\* io_.run() executes handlers until it runs out of work or has seen
\* io_.stop().  stop() does not wait: the handler that is executing when
\* it is called ("stopping") runs to its end, and then run() returns.
Running == io \in {"running", "stopping"}

AfterHandler == IF io = "stopping" THEN "stopped" ELSE io

\* ------------------------------------------------------ the io thread
\* notify_one() in the place of notify_all(): one waiter is woken.
NotifyOne(p) ==
    LET waiting == {t \in Threads : p[t] = "wc_wait"}
    IN  IF waiting = {} THEN p
        ELSE LET w == CHOOSE t \in waiting : \A u \in waiting : t <= u
             IN  [p EXCEPT ![w] = "wc_woken"]

\* conn_finished_.notify_all(): every thread blocked in wait() is woken
\* and has to take the mutex again before wait() returns.
NotifyAll(p) ==
    [t \in Threads |-> IF p[t] = "wc_wait" THEN "wc_woken" ELSE p[t]]

\* do_read() placed after the if/else: the read loop starts whatever the
\* connect attempt gave.
ConnectHandler_ReadAlways(ec) ==
    /\ Running
    /\ connect = "pending"
    /\ IF ec = "ok"
       THEN /\ mutex = 0
            /\ is_connected_' = TRUE
            /\ state_' = "connected"
            /\ pc' = NotifyAll(pc)
            /\ connect' = "ok"
       ELSE /\ connect' = "failed"
            /\ UNCHANGED <<is_connected_, state_, pc>>
    /\ read_armed' = TRUE
    /\ io' = AfterHandler
    /\ UNCHANGED <<call_idx_, ongoing_calls_, strand_, mutex, read_error, cur, idx, loc, outcome, written, received, nnotifs,
                   nwaits, prior, wa_vars>>

\* The completion handler of async_connect.  The success branch holds
\* mut_connection_finished_ from its first statement to its end and does
\* not block in between, so it is one step that needs the mutex free.
ConnectHandler(ec) ==
    /\ Running
    /\ connect = "pending"
    /\ IF ec = "ok"
       THEN /\ mutex = 0
            /\ is_connected_' = TRUE
            /\ state_' = "connected"
            /\ pc' = NotifyAll(pc)
            /\ read_armed' = TRUE
            /\ connect' = "ok"
       ELSE /\ connect' = "failed"
            /\ UNCHANGED <<is_connected_, state_, pc, read_armed>>
    /\ io' = AfterHandler
    /\ UNCHANGED <<call_idx_, ongoing_calls_, strand_, mutex, read_error, cur, idx, loc, outcome, written, received, nnotifs,
                   nwaits, prior, wa_vars>>

EraseTask(id) == [type |-> "erase", call |-> 0, id |-> id]
CallTask(c, id) == [type |-> "call", call |-> c, id |-> id]
NotifyTask(k) == [type |-> "notify", call |-> 0 - k, id |-> 0]

\* The handler without the error test: set_value for every frame.
FrameOutcome_Value(f) == [kind |-> "value", frame |-> f]

\* What the handler stores for frame f: the exception built from the
\* frame's error, or the frame's result.
FrameOutcome(f) == [kind |-> IF f.err THEN "error" ELSE "value", frame |-> f]

\* A completion slot that is not one-shot: a later frame with the id
\* overwrites what the future holds.
OnFrame_Overwrite(st, f) ==
    LET id   == f.id
        tab1 == IF st.tab[id] = NoEntry
                THEN [st.tab EXCEPT ![id] = DefaultPromise]
                ELSE st.tab
        p    == tab1[id]
    IN  [tab |-> [tab1 EXCEPT ![id].ready = TRUE],
         q |-> Append(st.q, EraseTask(id)),
         out |-> IF p.owner > 0
                 THEN [st.out EXCEPT ![p.owner] = FrameOutcome(f)]
                 ELSE st.out,
         thrown |-> FALSE]

\* The body of the while loop of the read handler for one decoded frame.
\* st is the part of the state the loop works on: the table, the strand
\* queue, the futures, and whether an exception has left the handler.
\*   ongoing_calls_[id] inserts a default promise when the id is missing;
\*   the erase is posted before the promise is touched;
\*   set_value (no error in the frame) or the throw of runtime_error and
\*   set_exception in the catch block satisfy the promise; on a promise
\*   that is already satisfied set_value throws promise_already_satisfied,
\*   the catch block's set_exception throws it again, and that exception
\*   leaves the handler.
OnFrame(st, f) ==
    LET id   == f.id
        tab1 == IF st.tab[id] = NoEntry
                THEN [st.tab EXCEPT ![id] = DefaultPromise]
                ELSE st.tab
        q1   == Append(st.q, EraseTask(id))
        p    == tab1[id]
    IN  IF p.ready
        THEN [tab |-> tab1, q |-> q1, out |-> st.out, thrown |-> TRUE]
        ELSE [tab |-> [tab1 EXCEPT ![id].ready = TRUE],
              q |-> q1,
              out |-> IF p.owner > 0
                      THEN [st.out EXCEPT ![p.owner] = FrameOutcome(f)]
                      ELSE st.out,
              thrown |-> FALSE]

\* while (pac_.next(&result)) { ... }: the frames of one read, in order;
\* an exception ends the loop.
RECURSIVE ProcessFrames(_, _)
ProcessFrames(st, fs) ==
    IF fs = <<>> \/ st.thrown THEN st
    ELSE ProcessFrames(OnFrame(st, Head(fs)), Tail(fs))

\* The completion handler of async_read_some with !ec.  A read that
\* completes no frame changes nothing and is left out.  The exception of a
\* second fulfilment leaves io_.run() and the thread function:
\* std::terminate.
ReadHandler(batch) ==
    /\ Running
    /\ read_armed
    /\ NFrames + Len(batch) <= MaxFrames
    /\ LET st == ProcessFrames([tab |-> ongoing_calls_, q |-> strand_,
                                out |-> outcome, thrown |-> FALSE], batch)
       IN  /\ ongoing_calls_' = st.tab
           /\ strand_' = st.q
           /\ outcome' = st.out
           /\ read_armed' = ~st.thrown
           /\ io' = IF st.thrown THEN "terminated" ELSE AfterHandler
    /\ received' = [i \in Ids |-> received[i] + InBatch(batch, Len(batch), i)]
    /\ UNCHANGED <<call_idx_, state_, is_connected_, mutex, connect,
                   read_error, pc, cur, idx, loc, written, nnotifs, nwaits,
                   prior, wa_vars>>

\* A read from a server that only answers: each frame bears the id of a
\* request that was handed to the writer, and no id gets more frames than
\* requests with it were written.
Answers(batch) ==
    \A k \in 1..Len(batch) :
        received[batch[k].id] + InBatch(batch, k, batch[k].id)
            <= Cardinality({c \in Calls : InWritten(c) /\ idx[c] = batch[k].id})

ReadAnswers(batch) == Answers(batch) /\ ReadHandler(batch)

ReadErrors == {"eof", "connection_reset", "other"}

\* A plain else as the last branch: every other error counts as a reset.
StateAfterReadError_ElseReset(ec) ==
    IF ec = "eof" THEN "disconnected" ELSE "reset"

\* The else-if chain of the read handler.
StateAfterReadError(ec) ==
    IF ec = "eof" THEN "disconnected"
    ELSE IF ec = "connection_reset" THEN "reset"
    ELSE state_

\* do_read() placed after the else-if chain: the loop reads on after an
\* error.
ReadAgainAfterError_Always(ec) == TRUE

\* No error branch of the read handler calls do_read().
ReadAgainAfterError(ec) == FALSE

\* The error branches setting the state and then falling through to the
\* do_read() of the success branch.
ReadErrorHandler_ReadOn(ec) ==
    /\ Running
    /\ read_armed
    /\ state_' = StateAfterReadError(ec)
    /\ read_armed' = TRUE
    /\ read_error' = ec
    /\ io' = AfterHandler
    /\ UNCHANGED <<call_idx_, ongoing_calls_, strand_, is_connected_, mutex,
                   connect, pc, cur, idx, loc, outcome, written,
                   received, nnotifs, nwaits, prior, wa_vars>>

\* The completion handler of async_read_some with an error code.
ReadErrorHandler(ec) ==
    /\ Running
    /\ read_armed
    /\ state_' = StateAfterReadError(ec)
    /\ read_armed' = ReadAgainAfterError(ec)
    /\ read_error' = ec
    /\ io' = AfterHandler
    /\ UNCHANGED <<call_idx_, ongoing_calls_, strand_, is_connected_, mutex,
                   connect, pc, cur, idx, loc, outcome, written,
                   received, nnotifs, nwaits, prior, wa_vars>>

\* The call task storing its promise with ongoing_calls_[idx] = ...
\* instead of insert(): a promise already under the id is replaced, and
\* destroyed.
RunCallTask_Assign(c, id) ==
    LET old == ongoing_calls_[id]
    IN  /\ ongoing_calls_' =
              [ongoing_calls_ EXCEPT ![id] = [owner |-> c, ready |-> FALSE]]
        /\ loc' = [loc EXCEPT ![c] = "table"]
        /\ outcome' = IF old.owner > 0 /\ ~old.ready
                      THEN [outcome EXCEPT ![old.owner] = Broken]
                      ELSE outcome
        /\ written' = Append(written, c)
        /\ taken' = taken \ {id}

\* The task client::post(buffer, idx, p) posts.  insert() leaves the table
\* alone when the key is present; the promise moved into the pair is then
\* destroyed unsatisfied, which breaks it.  The buffer goes to the writer
\* in both cases.
RunCallTask(c, id) ==
    /\ IF ongoing_calls_[id] = NoEntry
       THEN /\ ongoing_calls_' =
                  [ongoing_calls_ EXCEPT ![id] = [owner |-> c, ready |-> FALSE]]
            /\ loc' = [loc EXCEPT ![c] = "table"]
            /\ outcome' = outcome
       ELSE /\ ongoing_calls_' = ongoing_calls_
            /\ loc' = [loc EXCEPT ![c] = "destroyed"]
            /\ outcome' = [outcome EXCEPT ![c] = Broken]
    /\ written' = Append(written, c)
    /\ taken' = taken

\* The notification task written like the call task: it inserts an empty
\* promise under the counter's value before the write.
RunNotifyTask_Register(n) ==
    /\ written' = Append(written, n)
    /\ ongoing_calls_' =
          IF call_idx_ \in Ids /\ ongoing_calls_[call_idx_] = NoEntry
          THEN [ongoing_calls_ EXCEPT ![call_idx_] = DefaultPromise]
          ELSE ongoing_calls_
    /\ UNCHANGED <<loc, outcome, taken>>

\* The task client::post(buffer) posts: only the write.  Notification k
\* is -k in the writer's log.
RunNotifyTask(n) ==
    /\ written' = Append(written, n)
    /\ UNCHANGED <<ongoing_calls_, loc, outcome, taken>>

\* The task the read handler posts: ongoing_calls_.erase(id).  Destroying
\* a promise that was not satisfied breaks it.
RunEraseTask(id) ==
    LET p == ongoing_calls_[id]
    IN  /\ ongoing_calls_' = [ongoing_calls_ EXCEPT ![id] = NoEntry]
        /\ outcome' = IF p.owner > 0 /\ ~p.ready
                      THEN [outcome EXCEPT ![p.owner] = Broken]
                      ELSE outcome
        /\ taken' = taken \ {id}
        /\ UNCHANGED <<loc, written>>

\* The io thread runs the oldest task of the strand.
RunTask ==
    /\ Running
    /\ strand_ # <<>>
    /\ LET task == Head(strand_)
       IN  CASE task.type = "call"   -> RunCallTask(task.call, task.id)
             [] task.type = "notify" -> RunNotifyTask(task.call)
             [] task.type = "erase"  -> RunEraseTask(task.id)
    /\ strand_' = Tail(strand_)
    /\ io' = AfterHandler
    /\ UNCHANGED <<call_idx_, state_, is_connected_, mutex, connect,
                   read_armed, read_error, pc, cur, idx, received,
                   nnotifs, nwaits, prior, wa_thread>>

\* io_.run() returns when the io_service has no work left: no connect and
\* no read outstanding and no task queued.  The thread exits; tasks posted
\* later are queued and never run.
IoRunExit ==
    /\ io = "running"
    /\ connect # "pending"
    /\ ~read_armed
    /\ strand_ = <<>>
    /\ io' = "exited"
    /\ UNCHANGED <<call_idx_, ongoing_calls_, strand_, state_, is_connected_,
                   mutex, connect, read_armed, read_error, pc, cur, idx, loc,
                   outcome, written, received, nnotifs, nwaits, prior,
                   wa_vars>>

\* --------------------------------------------------- caller threads
\* A caller thread may use the client until the destructor has run.
Alive == io \notin {"stopping", "stopped"}

\* get_next_call_idx, first statement: ++call_idx_ (atomic).  The call
\* that is being submitted is numbered by the increment that started it.
\* call_idx_ is an int; MaxCalls keeps it far below overflow.
GetNextIncrement(t) ==
    /\ Alive
    /\ pc[t] = "idle"
    /\ call_idx_ < MaxCalls
    /\ call_idx_' = call_idx_ + 1
    /\ cur' = [cur EXCEPT ![t] = call_idx_ + 1]
    /\ loc' = [loc EXCEPT ![call_idx_ + 1] = "caller"]
    /\ pc' = [pc EXCEPT ![t] = "gn_inc"]
    /\ UNCHANGED <<ongoing_calls_, strand_, state_, is_connected_, mutex,
                   connect, read_armed, read_error, io, idx, outcome,
                   written, received, nnotifs, nwaits, prior, wa_vars>>

\* get_next_call_idx, second statement: return call_idx_ (a second atomic
\* read of the counter).
GetNextLoad(t) ==
    /\ pc[t] = "gn_inc"
    /\ idx' = [idx EXCEPT ![cur[t]] = call_idx_]
    /\ pc' = [pc EXCEPT ![t] = "gn_ret"]
    /\ UNCHANGED <<call_idx_, ongoing_calls_, strand_, state_, is_connected_,
                   mutex, connect, read_armed, read_error, io, cur, loc,
                   outcome, written, received, nnotifs, nwaits, prior,
                   wa_vars>>

\* client::post(buffer, idx, p) with the id the thread got: the task is
\* queued on the strand and post returns.
PostCall(t) ==
    /\ pc[t] = "gn_ret"
    /\ strand_' = Append(strand_, CallTask(cur[t], idx[cur[t]]))
    /\ loc' = [loc EXCEPT ![cur[t]] = "task"]
    /\ pc' = [pc EXCEPT ![t] = "idle"]
    /\ cur' = [cur EXCEPT ![t] = 0]
    /\ prior' = [prior EXCEPT ![cur[t]] = Posted]
    /\ UNCHANGED <<call_idx_, ongoing_calls_, state_, is_connected_, mutex,
                   connect, read_armed, read_error, io, idx, outcome,
                   written, received, nnotifs, nwaits, wa_vars>>

\* client::post(buffer) handing the buffer to the writer on the caller's
\* thread, instead of posting the write to the strand.
PostNotify_Direct(t) ==
    /\ Alive
    /\ pc[t] = "idle"
    /\ nnotifs < MaxNotifs
    /\ nnotifs' = nnotifs + 1
    /\ written' = Append(written, 0 - (nnotifs + 1))
    /\ prior' = [prior EXCEPT ![0 - (nnotifs + 1)] = Posted]
    /\ UNCHANGED <<call_idx_, ongoing_calls_, strand_, state_, is_connected_,
                   mutex, connect, read_armed, read_error, io, pc, cur, idx,
                   loc, outcome, received, nwaits, wa_vars>>

\* client::post(buffer): the notification path.
PostNotify(t) ==
    /\ Alive
    /\ pc[t] = "idle"
    /\ nnotifs < MaxNotifs
    /\ nnotifs' = nnotifs + 1
    /\ strand_' = Append(strand_, NotifyTask(nnotifs + 1))
    /\ prior' = [prior EXCEPT ![0 - (nnotifs + 1)] = Posted]
    /\ UNCHANGED <<call_idx_, ongoing_calls_, state_, is_connected_, mutex,
                   connect, read_armed, read_error, io, pc, cur, idx, loc,
                   outcome, written, received, nwaits, wa_vars>>

\* wait_conn: std::unique_lock<std::mutex> lock(mut_connection_finished_).
WaitConnLock(t) ==
    /\ Alive
    /\ pc[t] = "idle"
    /\ nwaits < MaxWaits
    /\ mutex = 0
    /\ mutex' = t
    /\ nwaits' = nwaits + 1
    /\ pc' = [pc EXCEPT ![t] = "wc_locked"]
    /\ UNCHANGED <<call_idx_, ongoing_calls_, strand_, state_, is_connected_,
                   connect, read_armed, read_error, io, cur, idx, loc,
                   outcome, written, received, nnotifs, prior, wa_vars>>

\* wait_conn: if (!is_connected_) conn_finished_.wait(lock).  wait()
\* releases the mutex and blocks in one step; when the flag is set the
\* function returns and the lock's destructor releases the mutex.
WaitConnCheck(t) ==
    /\ pc[t] = "wc_locked"
    /\ mutex' = 0
    /\ pc' = [pc EXCEPT ![t] = IF is_connected_ THEN "idle" ELSE "wc_wait"]
    /\ UNCHANGED <<call_idx_, ongoing_calls_, strand_, state_, is_connected_,
                   connect, read_armed, read_error, io, cur, idx, loc,
                   outcome, written, received, nnotifs, nwaits, prior,
                   wa_vars>>

\* std::condition_variable::wait may unblock spuriously.
SpuriousWakeup(t) ==
    /\ pc[t] = "wc_wait"
    /\ pc' = [pc EXCEPT ![t] = "wc_woken"]
    /\ UNCHANGED <<call_idx_, ongoing_calls_, strand_, state_, is_connected_,
                   mutex, connect, read_armed, read_error, io, cur, idx, loc,
                   outcome, written, received, nnotifs, nwaits, prior,
                   wa_vars>>

\* wait() takes the mutex again and returns; the wait is not in a loop, so
\* wait_conn returns and the lock's destructor releases the mutex.
WaitConnReturn(t) ==
    /\ pc[t] = "wc_woken"
    /\ mutex = 0
    /\ pc' = [pc EXCEPT ![t] = "idle"]
    /\ UNCHANGED <<call_idx_, ongoing_calls_, strand_, state_, is_connected_,
                   mutex, connect, read_armed, read_error, io, cur, idx, loc,
                   outcome, written, received, nnotifs, nwaits, prior,
                   wa_vars>>

\* The promise stored under id had get_future() called before: a call's
\* promise by the caller, who holds the future, and any promise by an
\* earlier wait_all_responses.
FutureRetrieved(id) == ongoing_calls_[id].owner > 0 \/ id \in taken

\* The ids with an entry in the table.
Present == {i \in Ids : ongoing_calls_[i] # NoEntry}

\* wait_all_responses on thread t: begin() of the range-for over
\* ongoing_calls_.  An empty table ends the loop at once.
WaitAllBegin(t) ==
    /\ Alive
    /\ pc[t] = "idle"
    /\ nwaitalls < MaxWaitAlls
    /\ nwaitalls' = nwaitalls + 1
    /\ wa_reg' = [wa_reg EXCEPT ![t] = {c \in Calls : Registered(c)}]
    /\ seen' = [seen EXCEPT ![t] = {}]
    /\ IF Present = {}
       THEN /\ wa_result' = [wa_result EXCEPT ![t] = "returned"]
            /\ UNCHANGED <<it, pc>>
       ELSE /\ \E i \in Present : it' = [it EXCEPT ![t] = i]
            /\ wa_result' = [wa_result EXCEPT ![t] = "none"]
            /\ pc' = [pc EXCEPT ![t] = "wa_at"]
    /\ UNCHANGED <<call_idx_, ongoing_calls_, strand_, state_, is_connected_,
                   mutex, connect, read_armed, read_error, io, cur, idx, loc,
                   outcome, written, received, nnotifs, nwaits, prior, taken>>

\* The body of the loop for the entry the iterator refers to, and the
\* step to the next entry (unordered_map: in any order).
\*   - the io thread erased the entry meanwhile: the iterator dangles,
\*     the behaviour is undefined;
\*   - get_future() on a promise whose future was retrieved throws
\*     std::future_error, which leaves wait_all_responses;
\*   - otherwise wait() returns once the promise is satisfied.
WaitAllVisit(t) ==
    /\ pc[t] = "wa_at"
    /\ LET i    == it[t]
           rest == Present \ (seen[t] \cup {i})
       IN  IF ongoing_calls_[i] = NoEntry
           THEN /\ wa_result' = [wa_result EXCEPT ![t] = "undefined"]
                /\ it' = [it EXCEPT ![t] = 0]
                /\ pc' = [pc EXCEPT ![t] = "idle"]
                /\ UNCHANGED <<seen, taken>>
           ELSE IF FutureRetrieved(i)
           THEN /\ wa_result' = [wa_result EXCEPT ![t] = "thrown"]
                /\ it' = [it EXCEPT ![t] = 0]
                /\ pc' = [pc EXCEPT ![t] = "idle"]
                /\ UNCHANGED <<seen, taken>>
           ELSE /\ ongoing_calls_[i].ready
                /\ taken' = taken \cup {i}
                /\ seen' = [seen EXCEPT ![t] = seen[t] \cup {i}]
                /\ IF rest = {}
                   THEN /\ wa_result' = [wa_result EXCEPT ![t] = "returned"]
                        /\ it' = [it EXCEPT ![t] = 0]
                        /\ pc' = [pc EXCEPT ![t] = "idle"]
                   ELSE /\ \E j \in rest : it' = [it EXCEPT ![t] = j]
                        /\ UNCHANGED <<wa_result, pc>>
    /\ UNCHANGED <<call_idx_, ongoing_calls_, strand_, state_, is_connected_,
                   mutex, connect, read_armed, read_error, io, cur, idx, loc,
                   outcome, written, received, nnotifs, nwaits, prior,
                   wa_reg, nwaitalls>>

\* ~client, first statement: io_.stop().  It returns at once; a handler
\* the io thread is executing goes on.  The destructor runs when no thread
\* is inside the client.  A process that std::terminate has ended runs no
\* destructor; "terminated" is the end of the io thread, and the steps of
\* the caller threads stay as they are.
Stop ==
    /\ io \in {"running", "exited"}
    /\ \A t \in Threads : pc[t] = "idle"
    /\ io' = IF io = "running" THEN "stopping" ELSE "stopped"
    /\ UNCHANGED <<call_idx_, ongoing_calls_, strand_, state_, is_connected_,
                   mutex, connect, read_armed, read_error, pc, cur, idx, loc,
                   outcome, written, received, nnotifs, nwaits, prior,
                   wa_vars>>

\* ~client, second statement: io_thread_.join(), when the io thread was
\* between two handlers at stop(): run() returns and join() with it.  No
\* handler and no task runs afterwards.
Join ==
    /\ io = "stopping"
    /\ io' = "stopped"
    /\ UNCHANGED <<call_idx_, ongoing_calls_, strand_, state_, is_connected_,
                   mutex, connect, read_armed, read_error, pc, cur, idx, loc,
                   outcome, written, received, nnotifs, nwaits, prior,
                   wa_vars>>

\* The destructor.
Destroy == Stop \/ Join

\* ------------------------------------------------------ specification
\* The io thread: the handlers and tasks io_.run() executes.
NextIo ==
    \/ \E ec \in {"ok", "error"} : ConnectHandler(ec)
    \/ \E batch \in Batches(Room) : ReadHandler(batch)
    \/ \E ec \in ReadErrors : ReadErrorHandler(ec)
    \/ RunTask
    \/ IoRunExit

\* A caller thread submitting a call.
NextCall ==
    \/ \E t \in Threads : GetNextIncrement(t)
    \/ \E t \in Threads : GetNextLoad(t)
    \/ \E t \in Threads : PostCall(t)

\* A caller thread in wait_conn.
NextWait ==
    \/ \E t \in Threads : WaitConnLock(t)
    \/ \E t \in Threads : WaitConnCheck(t)
    \/ \E t \in Threads : SpuriousWakeup(t)
    \/ \E t \in Threads : WaitConnReturn(t)

\* A caller thread in wait_all_responses.
NextWaitAll ==
    \/ \E t \in Threads : WaitAllBegin(t)
    \/ \E t \in Threads : WaitAllVisit(t)

Next ==
    \/ NextIo
    \/ NextCall
    \/ NextWait
    \/ NextWaitAll
    \/ \E t \in Threads : PostNotify(t)
    \/ Destroy

\* Every operation, by any thread, in any order.
Spec == Init /\ [][Next]_vars

\* The clients whose threads only submit calls.
NextCalls == NextIo \/ NextCall \/ Destroy
SpecCalls == Init /\ [][NextCalls]_vars

\* The same clients, talking to a server that only answers.
NextAnswered ==
    \/ \E ec \in {"ok", "error"} : ConnectHandler(ec)
    \/ \E batch \in Batches(Room) : ReadAnswers(batch)
    \/ \E ec \in ReadErrors : ReadErrorHandler(ec)
    \/ RunTask
    \/ IoRunExit
    \/ NextCall
    \/ Destroy
SpecAnswered == Init /\ [][NextAnswered]_vars

\* The clients whose threads only wait for the connection.
NextConn == NextIo \/ NextWait \/ Destroy
SpecConn == Init /\ [][NextConn]_vars

\* The clients whose threads submit calls and wait for all responses,
\* talking to a server that only answers.
NextWaitAlls == NextAnswered \/ NextWaitAll
SpecWaitAlls == Init /\ [][NextWaitAlls]_vars

\* The clients whose threads submit calls and notifications to a server
\* that sends nothing.
NextPosts ==
    \/ \E ec \in {"ok", "error"} : ConnectHandler(ec)
    \/ \E ec \in ReadErrors : ReadErrorHandler(ec)
    \/ RunTask
    \/ IoRunExit
    \/ NextCall
    \/ \E t \in Threads : PostNotify(t)
    \/ Destroy
SpecPosts == Init /\ [][NextPosts]_vars

\* wait_conn's own steps are scheduled fairly: a thread that can go on
\* does so, and a mutex that stays free is acquired.  Nothing is assumed
\* of the network, of the io thread or of spurious wake-ups.
FairSpecConn ==
    /\ SpecConn
    /\ \A t \in Threads : WF_vars(WaitConnCheck(t))
    /\ \A t \in Threads : WF_vars(WaitConnReturn(t))

\* ------------------------------------------------------------ properties
\* The future of call c holds the result or error of a frame with c's id.
OwnOutcome(c) ==
    /\ outcome[c].kind \in {"value", "error"}
    /\ outcome[c].frame.id = idx[c]

\* The promise of call c was stored in the table and is there no more.
Removed(c) == loc[c] = "table" /\ ~Registered(c)

UniqueIds ==
    \A c, d \in Calls : (c # d /\ idx[c] # 0 /\ idx[d] # 0) => idx[c] # idx[d]

\* The promise of call c was given the result or the error of a frame.
Fulfilled(c) == outcome[c].kind \in {"value", "error"}

\* The server closed the stream or reset the connection.
Closed == state_ \in {"disconnected", "reset"}

\* The destructor has called io_.stop().
ShutdownBegun == io \in {"stopping", "stopped"}

InWaitConn(t) == pc[t] \in {"wc_locked", "wc_wait", "wc_woken"}

\* C1: no two invocations of get_next_call_idx return the same id, also
\* when caller threads invoke it concurrently.
C1_IdsUnique == UniqueIds

\* C2: a call whose future holds an outcome holds the result or error of
\* a response frame that bears the call's own id.
C2_OwnFrame == \A c \in Calls : outcome[c] # Unset => OwnOutcome(c)

\* C3: a request that was handed to the writer had its promise inserted
\* into the table before, and until its response is decoded the promise
\* is in the table under the request's id.
C3_RegisteredBeforeWrite ==
    \A c \in Calls :
        InWritten(c) =>
            /\ loc[c] = "table"
            /\ outcome[c] = Unset => Registered(c)

\* C4: the future of a call is given an outcome at most once, and never
\* after the call's entry has been removed from the table.
C4_AtMostOnce ==
    [][\A c \in Calls :
          (outcome[c] # Unset \/ Removed(c)) => outcome'[c] = outcome[c]]_vars

\* A call was answered, its entry erased, and a later frame with its id
\* has been decoded (it sits in a default entry under that id).
C4_Witness ==
    \E c \in Calls :
        /\ OwnOutcome(c)
        /\ Removed(c)
        /\ ongoing_calls_[idx[c]] = [owner |-> 0, ready |-> TRUE]

\* C5: a frame whose id has no entry in the table is dropped; every call
\* submitted before or around it is registered by its task and stays
\* registered until its own response resolves it.  (Stated for runs in
\* which the ids are unique, so that what fails is the frame's doing.)
C5_UnknownFrameDropped ==
    UniqueIds =>
        \A c \in Calls :
            loc[c] \in {"table", "destroyed"} => Registered(c) \/ OwnOutcome(c)

\* C6: the connection state changes only initial -> connected,
\* connected -> disconnected and connected -> reset; disconnected and
\* reset are final.
C6_StateTransitions ==
    [][state_' # state_ =>
          <<state_, state_'>> \in {<<"initial", "connected">>,
                                   <<"connected", "disconnected">>,
                                   <<"connected", "reset">>}]_vars

\* The state went to disconnected and the io thread ran out of work.
C6_Witness == state_ = "disconnected" /\ io = "exited"

\* C7: a read that fails with eof leaves the state disconnected, with
\* connection_reset reset, with any other error connected; after each of
\* them no read is outstanding.
C7_ReadErrors ==
    /\ read_error = "eof" => state_ = "disconnected"
    /\ read_error = "connection_reset" => state_ = "reset"
    /\ read_error = "other" => state_ = "connected"
    /\ read_error # "none" => ~read_armed

\* A read failed with another error than eof or reset.
C7_Witness == read_error = "other" /\ state_ = "connected" /\ ~read_armed

\* C8: wait_conn returns only when the connection has been connected, and
\* does not block when it is connected at the time of the call.
C8_WaitConnReturns ==
    [][\A t \in Threads :
          /\ (InWaitConn(t) /\ pc'[t] = "idle") => is_connected_
          /\ (pc[t] = "wc_locked" /\ is_connected_) => pc'[t] # "wc_wait"]_vars

C10_ConnectOutcome ==
    /\ [](connect = "failed" =>
            state_ = "initial" /\ ~read_armed /\ NFrames = 0)
    /\ [][(connect = "failed" => connect' = "failed")
          /\ (connect = "pending" /\ connect' = "ok" =>
                 state_' = "connected" /\ read_armed')]_vars

\* The connect attempt failed and the io thread ran out of work.
C10_Witness == connect = "failed" /\ io = "exited" /\ state_ = "initial"

\* C11: when post() had returned for submission a before post() was
\* called for submission b (as it has when one thread makes them in
\* program order), and b's buffer has reached the writer, a's buffer
\* reached it earlier, whatever was submitted in between.
C11_SubmissionOrder ==
    \A a \in Subs : \A b \in Subs :
        (a \in prior[b] /\ InWritten(b)) =>
            (InWritten(a) /\ WrittenAt(a) < WrittenAt(b))

\* Two submissions in order reached the writer with a third between them.
C11_Witness ==
    \E a \in Subs : \E b \in Subs : \E c \in Subs :
        /\ a \in prior[b]
        /\ InWritten(a) /\ InWritten(b) /\ InWritten(c)
        /\ WrittenAt(a) < WrittenAt(c)
        /\ WrittenAt(c) < WrittenAt(b)

\* C12: once the state is Disconnected or Reset, no step gives a future
\* the result or the error of a frame: a call submitted afterwards (and
\* one still waiting) is never fulfilled with a value; its future stays
\* unset or fails.
C12_NoFulfilAfterClose ==
    [][Closed =>
          \A c \in Calls :
              outcome'[c] # outcome[c] => outcome'[c] = Broken]_vars

\* After the server closed the stream, a call was submitted and sent, and
\* its promise sits in the table unfulfilled with no read outstanding.
C12_Witness ==
    /\ state_ = "disconnected"
    /\ ~read_armed
    /\ \E c \in Calls :
           /\ Registered(c)
           /\ InWritten(c)
           /\ outcome[c] = Unset
           /\ \E d \in Calls : d \in prior[c] /\ Fulfilled(d)

\* C13: no caller thread refers to an entry of the table; in particular
\* the event loop never removes an entry that a caller thread's iterator
\* refers to.
C13_TableOnLoopOnly ==
    \A t \in Threads : it[t] # 0 => ongoing_calls_[it[t]] # NoEntry

\* C16: when wait_all_responses has ended on a thread, by returning or by
\* an exception, every call that was registered in the table when the
\* thread called it has been fulfilled.
C16_WaitAllCovers ==
    \A t \in Threads :
        wa_result[t] \in {"returned", "thrown"} =>
            \A c \in wa_reg[t] : Fulfilled(c)

\* C14: a call fulfilled by a frame that carries an error holds a failure
\* with that frame's error, never a result value; a call fulfilled by a
\* frame without error holds the frame's result.
C14_ErrorOrResult ==
    \A c \in Calls :
        Fulfilled(c) =>
            outcome[c].kind = IF outcome[c].frame.err THEN "error" ELSE "value"

\* One call was fulfilled by an error frame and one by a result frame.
C14_Witness ==
    \E c \in Calls : \E d \in Calls :
        /\ Fulfilled(c) /\ outcome[c].frame.err /\ outcome[c].kind = "error"
        /\ Fulfilled(d) /\ ~outcome[d].frame.err /\ outcome[d].kind = "value"

\* C15: once the destructor has called io_.stop(), no future is given the
\* result or the error of a frame any more.
C15_NoOutcomeAfterStop ==
    [][ShutdownBegun =>
          \A c \in Calls :
              outcome'[c].kind \in {"value", "error"} =>
                  outcome'[c] = outcome[c]]_vars

\* The entry of id i holds a call's promise that a response fulfilled and
\* that the follow-up task has not removed yet.
AwaitsRemoval(i) == ongoing_calls_[i].owner > 0 /\ ongoing_calls_[i].ready

\* C17: the entry of an answered call is removed before its id is handed
\* to a later call: get_next_call_idx never returns an id whose entry is
\* answered and still in the table.
C17_RemovedBeforeReuse ==
    [][\A c \in Calls :
          (idx[c] = 0 /\ idx'[c] # 0) => ~AwaitsRemoval(idx'[c])]_vars

\* The follow-up task runs whenever it stays queued.
FairSpecAnswered == SpecAnswered /\ WF_vars(RunTask)

\* The entry of an answered call is removed, unless the io thread ends.
C17_EventuallyRemoved ==
    \A i \in Ids :
        AwaitsRemoval(i) ~> (ongoing_calls_[i] = NoEntry \/ ~Running)

\* The io thread runs the task of a notification.
NotifyTaskStep ==
    /\ strand_ # <<>>
    /\ Head(strand_).type = "notify"
    /\ strand_' = Tail(strand_)

\* C18: the notification path, post(buffer) and the task it queues,
\* leaves the table, the promises and the call-id counter as they are;
\* the task only hands the notification's buffer to the writer.
C18_NotifyRegistersNothing ==
    [][(nnotifs' # nnotifs \/ NotifyTaskStep) =>
          /\ ongoing_calls_' = ongoing_calls_
          /\ call_idx_' = call_idx_
          /\ loc' = loc
          /\ outcome' = outcome
          /\ NotifyTaskStep =>
                 written' = Append(written, Head(strand_).call)]_vars

\* A notification reached the writer while a call was registered and
\* another id was still free.
C18_Witness ==
    /\ \E n \in Notifs : InWritten(n)
    /\ \E c \in Calls : Registered(c)
    /\ \E i \in Ids : ongoing_calls_[i] = NoEntry
    /\ call_idx_ > 0

\* C19: a second frame with the id of a call that was answered, decoded
\* while the call's entry is still in the table, makes no exception leave
\* the read handler: the io thread is not ended by std::terminate.
C19_DuplicateDropped ==
    (\E c \in Calls :
        Registered(c) /\ Fulfilled(c) /\ received[idx[c]] > 1)
            => io # "terminated"

\* C20: every entry that a step removes from the table holds a promise
\* that was fulfilled before the step.
C20_ErasedWereFulfilled ==
    [][\A i \in Ids :
          (ongoing_calls_[i] # NoEntry /\ ongoing_calls_'[i] = NoEntry)
              => ongoing_calls_[i].ready]_vars

\* The removal task has erased the entry of a fulfilled call while another
\* call is registered and unanswered.
C20_Witness ==
    /\ \E c \in Calls : Removed(c) /\ Fulfilled(c)
    /\ \E d \in Calls : Registered(d) /\ outcome[d] = Unset

====
